---- MODULE Spec2Model ----
(***************************************************************************)
(* The RPL portal: the chat relay (POST /api/chat/:agentId, its webhook    *)
(* .then/.catch chain), the socket.io rooms, the client routes (admin),    *)
(* the agent routes and the chat history (server code of README.md), and   *)
(* the Chat.tsx view that submits messages and listens for agent_response. *)
(***************************************************************************)
EXTENDS Naturals, Integers, Sequences, FiniteSets, TLC

\* ------------------------------------------------------------------ bounds
MaxRequests == 1
MaxAgentOps == 1
MaxClientOps == 1
MaxCreates == 2
MaxJoins == 2
MaxInitRuns == 4

Requests == 1..MaxRequests
\* the message rows of three earlier, finished submissions, by id
History ==
    << [exists |-> TRUE, client_id |-> 1, agent_id |-> 1, message |-> "hello",
        response |-> "first answer", writes |-> 1],
       [exists |-> TRUE, client_id |-> 2, agent_id |-> 2, message |-> "hello",
        response |-> "This agent is not configured with a webhook yet.",
        writes |-> 1],
       [exists |-> TRUE, client_id |-> 1, agent_id |-> 1, message |-> "again",
        response |-> "second answer", writes |-> 1] >>
MessageIds == 1..(Len(History) + MaxRequests)

\* ------------------------------------------------------- values and inputs
NULL == "<NULL>"
Undefined == "<undefined>"
URL == "http://n8n/webhook"

Clients == {1, 2}
\* ids of table agents: the two agents of Init and the SERIAL values that
\* POST /api/agents can draw
AgentIds == 1..(2 + MaxAgentOps)
Sockets == {"s1", "s2"}

\* ids of table clients: the two clients of Init and the SERIAL values that
\* POST /api/clients can draw
ClientIds == 1..(2 + MaxCreates)
CreateRequests == 1..MaxCreates

\* the Chat view: logged in as client ViewUser, mounted on /chat/ViewAgent,
\* holding socket ViewSocket
ViewUser == 1
ViewAgent == 1
ViewSocket == "s1"

NoToken == [kind |-> "none", id |-> 0, role |-> "none"]
BadToken == [kind |-> "invalid", id |-> 0, role |-> "none"]
\* a token whose 24h have passed: jwt.verify calls back with TokenExpiredError
ExpiredToken == [kind |-> "expired", id |-> 0, role |-> "none"]
ClientToken(c) == [kind |-> "valid", id |-> c, role |-> "client"]
\* the token of the seeded admin: the first row of table admins, id 1
AdminToken == [kind |-> "valid", id |-> 1, role |-> "admin"]
Tokens == {NoToken, BadToken, ExpiredToken, AdminToken}
              \cup {ClientToken(c) : c \in Clients}

\* request bodies of POST /api/chat/:agentId
MessageTexts == {"", "hello"}

\* JSON bodies a webhook can answer with (2xx)
ResponseFields == {Undefined, "", "hi there"}
MessageFields == {Undefined, "", "Workflow was started"}
WebhookBodies == [response : ResponseFields, message : MessageFields]
FailureReasons == {"timeout", "connection error", "non-2xx status"}

\* request bodies of POST /api/clients (company_name and webhook_url left out)
CreateBodies == [username : {"", "u1", "u3"}, email : {"", "e2", "e3"},
                 password : {"", "secret"}]

\* request bodies of PUT /api/clients/:id/webhook
WebhookPutBodies == [webhook_url : {Undefined, "", URL}]

\* request bodies of POST /api/agents (description left out)
AgentPostBodies == [name : {"", "bot"}, webhook_url : {Undefined, URL}]

\* request bodies of PUT /api/agents/:id (name and description left out)
\* the three values of a JavaScript/SQL boolean that the code meets
JsTrue == "true"
JsFalse == "false"
PutBodies == [webhook_url : {"", URL}, is_active : {JsTrue, JsFalse, Undefined}]

no_webhook_response == "This agent is not configured with a webhook yet."
error_response == "Sorry, the agent is currently unavailable."
received_response == "Agent response received"

\* ------------------------------------------------------------------- state
VARIABLES
    agents,         \* table agents: id -> row or NoRow
    messages,       \* table messages: id -> row or NoRow
    nextMessageId,  \* the SERIAL sequence of messages.id
    req,            \* one record per POST /api/chat request, with its closure
    rooms,          \* socket.io rooms: client id -> sockets joined
    events,         \* every io.to(room).emit('agent_response'), in order
    inbox,          \* per socket: events sent to it, not yet handled
    viewMessages,   \* Chat.tsx state `messages`
    loading,        \* Chat.tsx state `loading`
    lifecycle,      \* per request: what happened for its message, in order
    agentOps,       \* number of PUT/DELETE /api/agents handled
    clients,        \* table clients: id -> row or NoRow
    nextClientId,   \* the SERIAL sequence of clients.id
    nextAgentId,    \* the SERIAL sequence of agents.id
    creq,           \* one record per POST /api/clients request
    clientOps,      \* number of PUT/DELETE /api/clients handled
    live,           \* the connected sockets
    joins,          \* per socket: the join_client_room messages handled on
                    \* its latest connection, in order
    last,           \* the HTTP reply of the latest one-query request
    admins,         \* table admins: the rows, in insertion order
    initRun,        \* per run of initDatabase: its position
    chat,           \* the Chat component: mounted, agentId, state `socket`,
                    \* and the `socket` its pending effect cleanup closes over
    sessionSockets  \* per socket of the browser session: "none" before io()
                    \* returns it, then "open", and "closed" after disconnect()

portalVars == <<clients, nextClientId, nextAgentId, creq, clientOps>>
setupVars == <<admins, initRun>>
chatVars == <<chat, sessionSockets>>
viewVars == <<viewMessages, loading>>
relayVars == <<req, events, inbox, lifecycle, nextMessageId>>

vars == <<agents, messages, nextMessageId, req, rooms, events, inbox,
          viewMessages, loading, lifecycle, agentOps, portalVars, live, joins,
          last, setupVars, chatVars>>

NoRow == [exists |-> FALSE]

\* the runs of initDatabase: the setup script's and the server starts'
InitRuns == 1..MaxInitRuns

\* the default admin that initDatabase inserts
SeedAdmin == [username |-> "admin", email |-> "admin@rpl.com"]

\* the sockets that io() can return in one browser session, in the order it
\* returns them; none is created yet
ChatSockets == <<"c1", "c2", "c3", "c4", "c5">>
NoSockets == [i \in DOMAIN ChatSockets |-> "none"]

\* the Chat component before it is mounted
NoChat == [mounted |-> FALSE, agentId |-> Undefined, socket |-> NULL,
           cleanup |-> NULL]

AgentRow(c, w, a) ==
    [exists |-> TRUE, client_id |-> c, webhook_url |-> w, is_active |-> a]

MessageRow(c, a, m) ==
    [exists |-> TRUE, client_id |-> c, agent_id |-> a, message |-> m,
     response |-> NULL, writes |-> 0]

ClientRow(u, e) ==
    [exists |-> TRUE, username |-> u, email |-> e, webhook_url |-> NULL]

NoReply == [status |-> 0, body |-> [error |-> "<no reply>"]]
ErrorReply(s, e) == [status |-> s, body |-> [error |-> e]]

NoOutcome == [kind |-> "none", response |-> Undefined, message |-> Undefined,
              reason |-> "none"]
Answered(b) == [kind |-> "answered", response |-> b.response,
                message |-> b.message, reason |-> "none"]
Failed(why) == [kind |-> "failed", response |-> Undefined,
                message |-> Undefined, reason |-> why]

IdleRequest ==
    [pc |-> "idle", viaView |-> FALSE, clientId |-> 0, role |-> "none",
     agentId |-> 0,
     message |-> "", webhook_url |-> NULL, messageId |-> 0,
     response_text |-> NULL, outcome |-> NoOutcome, reply |-> NoReply,
     replySeen |-> FALSE, dbError |-> FALSE]

\* a POST /api/clients request
IdleCreate == [pc |-> "idle", role |-> "none", username |-> "", email |-> "",
               reply |-> NoReply]

\* what a one-query route answered: the route, the caller's token payload,
\* the :id or :agentId of the path (0 without one), the status, the error
\* text (if any) and the rows of the JSON body
NoRequest == [op |-> "none", role |-> "none", caller |-> 0, id |-> 0,
              status |-> 0, error |-> "", rows |-> <<>>]

Reply(op, token, id, status, error, rows) ==
    [op |-> op, role |-> token.role, caller |-> token.id, id |-> id,
     status |-> status, error |-> error, rows |-> rows]

\* faulty variant: the empty string counted as truthy
Truthy_EmptyIsTrue(v) == v \notin {NULL, Undefined, JsFalse}

\* JavaScript truthiness of the values the model uses
Truthy(v) == v \notin {NULL, Undefined, "", JsFalse}

Init ==
    /\ \E w \in {NULL, "", URL} :
          agents = [a \in AgentIds |->
                      IF a = 1 THEN AgentRow(1, w, JsTrue)
                      ELSE IF a = 2 THEN AgentRow(2, NULL, JsTrue)
                      ELSE NoRow]
    /\ messages = [m \in MessageIds |-> NoRow]
    /\ nextMessageId = 1
    /\ req = [r \in Requests |-> IdleRequest]
    /\ rooms = [c \in Clients |-> {}]
    /\ events = <<>>
    /\ inbox = [s \in Sockets |-> <<>>]
    /\ viewMessages = <<>>
    /\ loading = FALSE
    /\ lifecycle = [r \in Requests |-> <<>>]
    /\ agentOps = 0
    /\ clients = [c \in ClientIds |->
                    IF c = 1 THEN ClientRow("u1", "e1")
                    ELSE IF c = 2 THEN ClientRow("u2", "e2")
                    ELSE NoRow]
    /\ nextClientId = 3
    /\ nextAgentId = 3
    /\ creq = [k \in CreateRequests |-> IdleCreate]
    /\ clientOps = 0
    /\ live = {}
    /\ joins = [s \in Sockets |-> <<>>]
    /\ last = NoRequest
    /\ admins = <<SeedAdmin>>
    /\ initRun = [p \in InitRuns |-> "idle"]
    /\ chat = NoChat
    /\ sessionSockets = NoSockets

\* ------------------------------------------------------------ middleware
\* authenticateToken: 0 when next() is called, else the status it answers
authenticateToken(token) ==
    IF token.kind = "none" THEN 401
    ELSE IF token.kind \in {"invalid", "expired"} THEN 403
    ELSE 0

AuthError(token) ==
    IF token.kind = "none" THEN "Access token required" ELSE "Invalid token"

\* faulty variant: authenticateAdmin without `user.role !== 'admin'`
authenticateAdmin_AnyRole(token) ==
    IF token.kind = "none" THEN 401
    ELSE IF token.kind \in {"invalid", "expired"} THEN 403
    ELSE 0

\* authenticateAdmin: 0 when next() is called, else the status it answers
authenticateAdmin(token) ==
    IF token.kind = "none" THEN 401
    ELSE IF token.kind \in {"invalid", "expired"} \/ token.role # "admin"
    THEN 403
    ELSE 0

AdminAuthError(token) ==
    IF token.kind = "none" THEN "Access token required"
    ELSE "Admin access required"

\* ------------------------------------------------------------- persistence
\* faulty variant: the lookup without `AND client_id = $2`
SelectAgent_AnyOwner(agentId, clientId) ==
    IF agentId \in AgentIds /\ agents[agentId].exists
    THEN agents[agentId] ELSE NoRow

\* getRow("SELECT * FROM agents WHERE id = $1 AND client_id = $2")
SelectAgent(agentId, clientId) ==
    IF /\ agentId \in AgentIds
       /\ agents[agentId].exists
       /\ agents[agentId].client_id = clientId
    THEN agents[agentId] ELSE NoRow

\* "UPDATE messages SET response = $1 WHERE id = $2": no row, no change
UpdateResponse(msgs, messageId, text) ==
    IF msgs[messageId].exists
    THEN [msgs EXCEPT ![messageId].response = text,
                      ![messageId].writes = @ + 1]
    ELSE msgs

\* ON DELETE CASCADE of messages.agent_id
CascadeAgent(msgs, agentId) ==
    [m \in MessageIds |->
        IF msgs[m].exists /\ msgs[m].agent_id = agentId THEN NoRow
        ELSE msgs[m]]

\* ------------------------------------------------------------ the relay
\* response.data.response || response.data.message || 'Agent response received'
ResponseText(data) ==
    IF Truthy(data.response) THEN data.response
    ELSE IF Truthy(data.message) THEN data.message
    ELSE received_response

\* res.json({ messageId, message: 'Message sent successfully' })
SuccessReply(messageId) ==
    [status |-> 200,
     body |-> [messageId |-> messageId,
               message |-> "Message sent successfully"]]

\* io.to(`client_${clientId}`).emit('agent_response', {...})
AgentResponse(r, text) ==
    [messageId |-> req[r].messageId, agentId |-> req[r].agentId,
     response |-> text]

\* how often the latest connection of socket s sent join_client_room for c
JoinCount(s, c) == Cardinality({i \in DOMAIN joins[s] : joins[s][i] = c})

\* faulty variant: io.emit for io.to(room).emit
Emit_Broadcast(r, text) ==
    /\ events' = Append(events,
                        [room |-> req[r].clientId, to |-> live, by |-> r,
                         data |-> AgentResponse(r, text),
                         rejoined |-> {}, closed |-> {}])
    /\ inbox' = [s \in Sockets |->
                    IF s \in live THEN Append(inbox[s], AgentResponse(r, text))
                    ELSE inbox[s]]

\* the event goes to the sockets that are in the room now. The record of
\* the emit also notes which of them had joined more than once, and which
\* sockets had joined this room and were closed before the emit.
Emit(r, text) ==
    LET c == req[r].clientId
        room == rooms[c]
    IN
    /\ events' = Append(events,
                        [room |-> c, to |-> room, by |-> r,
                         data |-> AgentResponse(r, text),
                         rejoined |-> {s \in room : JoinCount(s, c) > 1},
                         closed |-> {s \in Sockets \ live :
                                        JoinCount(s, c) > 0}])
    /\ inbox' = [s \in Sockets |->
                    IF s \in room THEN Append(inbox[s], AgentResponse(r, text))
                    ELSE inbox[s]]

\* the handler of POST /api/chat/:agentId up to the INSERT it sends
ChatPost(r, viaView, token, agentId, message) ==
    LET authed == authenticateToken(token) = 0
        agent == SelectAgent(agentId, token.id)
        reply ==
            IF ~authed
            THEN ErrorReply(authenticateToken(token), AuthError(token))
            ELSE IF ~Truthy(message) THEN ErrorReply(400, "Message required")
            ELSE IF ~agent.exists THEN ErrorReply(404, "Agent not found")
            ELSE IF ~Truthy(agent.is_active)
            THEN ErrorReply(400, "Agent is not active")
            ELSE NoReply
    IN
    /\ req[r].pc = "idle"
    /\ IF r = 1 THEN TRUE ELSE req[r - 1].pc # "idle"
    /\ req' = [req EXCEPT ![r] =
                  [@ EXCEPT !.pc = IF reply = NoReply THEN "insert" ELSE "done",
                            !.viaView = viaView,
                            !.clientId = token.id,
                            !.role = token.role,
                            !.agentId = IF authed THEN agentId ELSE 0,
                            !.message = IF authed THEN message ELSE "",
                            !.webhook_url =
                                IF reply = NoReply THEN agent.webhook_url
                                ELSE NULL,
                            !.reply = reply]]

\* POST /api/chat/:agentId sent by any HTTP client
ApiChatPost(r, token, agentId, message) ==
    /\ ChatPost(r, FALSE, token, agentId, message)
    /\ UNCHANGED <<setupVars, chatVars, portalVars, live, joins, last>>
    /\ UNCHANGED <<agents, messages, nextMessageId, rooms, events, inbox,
                   viewMessages, loading, lifecycle, agentOps>>

\* faulty variant: an agent without webhook_url is relayed to the webhook_url
\* of its client
ChatInsert_ClientWebhook(r) ==
    /\ req[r].pc = "insert"
    /\ IF agents[req[r].agentId].exists /\ clients[req[r].clientId].exists
       THEN LET messageId == nextMessageId IN
            /\ messages' = [messages EXCEPT ![messageId] =
                              MessageRow(req[r].clientId, req[r].agentId,
                                         req[r].message)]
            /\ nextMessageId' = nextMessageId + 1
            /\ IF \/ Truthy(req[r].webhook_url)
                  \/ Truthy(clients[req[r].clientId].webhook_url)
               THEN /\ req' = [req EXCEPT ![r].pc = "inflight",
                                          ![r].messageId = messageId,
                                          ![r].reply = SuccessReply(messageId)]
                    /\ lifecycle' = [lifecycle EXCEPT ![r] =
                                       @ \o <<"insert", "webhook", "reply">>]
               ELSE /\ req' = [req EXCEPT ![r].pc = "placeholder_update",
                                          ![r].messageId = messageId]
                    /\ lifecycle' = [lifecycle EXCEPT ![r] = @ \o <<"insert">>]
       ELSE \* foreign key violation: caught, 500
            /\ req' = [req EXCEPT ![r].pc = "done",
                                  ![r].dbError = TRUE,
                                  ![r].reply = ErrorReply(500, "Database error")]
            /\ UNCHANGED <<messages, nextMessageId, lifecycle>>
    /\ UNCHANGED <<setupVars, chatVars, portalVars, live, joins, last>>
    /\ UNCHANGED <<agents, rooms, events, inbox, viewMessages, loading,
                   agentOps>>

\* the INSERT executes; then the webhook call is issued and the HTTP reply
\* sent, or the placeholder UPDATE is sent
ChatInsert(r) ==
    /\ req[r].pc = "insert"
    /\ IF agents[req[r].agentId].exists /\ clients[req[r].clientId].exists
       THEN LET messageId == nextMessageId IN
            /\ messages' = [messages EXCEPT ![messageId] =
                              MessageRow(req[r].clientId, req[r].agentId,
                                         req[r].message)]
            /\ nextMessageId' = nextMessageId + 1
            /\ IF Truthy(req[r].webhook_url)
               THEN /\ req' = [req EXCEPT ![r].pc = "inflight",
                                          ![r].messageId = messageId,
                                          ![r].reply = SuccessReply(messageId)]
                    /\ lifecycle' = [lifecycle EXCEPT ![r] =
                                       @ \o <<"insert", "webhook", "reply">>]
               ELSE /\ req' = [req EXCEPT ![r].pc = "placeholder_update",
                                          ![r].messageId = messageId]
                    /\ lifecycle' = [lifecycle EXCEPT ![r] = @ \o <<"insert">>]
       ELSE \* foreign key violation: caught, 500
            /\ req' = [req EXCEPT ![r].pc = "done",
                                  ![r].dbError = TRUE,
                                  ![r].reply = ErrorReply(500, "Database error")]
            /\ UNCHANGED <<messages, nextMessageId, lifecycle>>
    /\ UNCHANGED <<setupVars, chatVars, portalVars, live, joins, last>>
    /\ UNCHANGED <<agents, rooms, events, inbox, viewMessages, loading,
                   agentOps>>

Written(r, msgs) ==
    IF msgs[req[r].messageId].exists THEN <<"write">> ELSE <<>>

\* no webhook: the UPDATE with the placeholder executes
PlaceholderUpdate(r) ==
    /\ req[r].pc = "placeholder_update"
    /\ messages' = UpdateResponse(messages, req[r].messageId,
                                  no_webhook_response)
    /\ req' = [req EXCEPT ![r].pc = "placeholder_emit",
                          ![r].response_text = no_webhook_response]
    /\ lifecycle' = [lifecycle EXCEPT ![r] = @ \o Written(r, messages)]
    /\ UNCHANGED <<setupVars, chatVars, portalVars, live, joins, last>>
    /\ UNCHANGED <<agents, nextMessageId, rooms, events, inbox, viewMessages,
                   loading, agentOps>>

\* no webhook: emit, then res.json
PlaceholderEmit(r) ==
    /\ req[r].pc = "placeholder_emit"
    /\ Emit(r, req[r].response_text)
    /\ req' = [req EXCEPT ![r].pc = "done",
                          ![r].reply = SuccessReply(req[r].messageId)]
    /\ lifecycle' = [lifecycle EXCEPT ![r] = @ \o <<"emit", "reply">>]
    /\ UNCHANGED <<setupVars, chatVars, portalVars, live, joins, last>>
    /\ UNCHANGED <<agents, messages, nextMessageId, rooms, viewMessages,
                   loading, agentOps>>

\* faulty variant: the .then handler emits before it updates the row
WebhookAnswered_EmitFirst(r, data) ==
    /\ req[r].pc = "inflight"
    /\ Emit(r, ResponseText(data))
    /\ messages' = UpdateResponse(messages, req[r].messageId,
                                  ResponseText(data))
    /\ req' = [req EXCEPT ![r].pc = "done",
                          ![r].response_text = ResponseText(data),
                          ![r].outcome = Answered(data)]
    /\ lifecycle' = [lifecycle EXCEPT ![r] =
                       @ \o <<"emit">> \o Written(r, messages)]
    /\ UNCHANGED <<setupVars, chatVars, portalVars, live, joins, last>>
    /\ UNCHANGED <<agents, nextMessageId, rooms, viewMessages, loading,
                   agentOps>>

\* .then: the webhook answered 2xx with `data`; the UPDATE executes
WebhookAnswered(r, data) ==
    /\ req[r].pc = "inflight"
    /\ messages' = UpdateResponse(messages, req[r].messageId,
                                  ResponseText(data))
    /\ req' = [req EXCEPT ![r].pc = "then_emit",
                          ![r].response_text = ResponseText(data),
                          ![r].outcome = Answered(data)]
    /\ lifecycle' = [lifecycle EXCEPT ![r] = @ \o Written(r, messages)]
    /\ UNCHANGED <<setupVars, chatVars, portalVars, live, joins, last>>
    /\ UNCHANGED <<agents, nextMessageId, rooms, events, inbox, viewMessages,
                   loading, agentOps>>

ThenEmit(r) ==
    /\ req[r].pc = "then_emit"
    /\ Emit(r, req[r].response_text)
    /\ req' = [req EXCEPT ![r].pc = "done"]
    /\ lifecycle' = [lifecycle EXCEPT ![r] = @ \o <<"emit">>]
    /\ UNCHANGED <<setupVars, chatVars, portalVars, live, joins, last>>
    /\ UNCHANGED <<agents, messages, nextMessageId, rooms, viewMessages,
                   loading, agentOps>>

\* the axios.post calls made for request r
WebhookCalls(r) ==
    Cardinality({i \in DOMAIN lifecycle[r] : lifecycle[r][i] = "webhook"})

\* faulty variant: the .catch handler posts to the webhook again (up to two
\* more times)
WebhookFailed_Retry(r, why) ==
    /\ req[r].pc = "inflight"
    /\ WebhookCalls(r) < 3
    /\ req' = [req EXCEPT ![r].outcome = Failed(why)]
    /\ lifecycle' = [lifecycle EXCEPT ![r] = @ \o <<"webhook">>]
    /\ UNCHANGED <<setupVars, chatVars, portalVars, live, joins, last>>
    /\ UNCHANGED <<agents, messages, nextMessageId, rooms, events, inbox,
                   viewMessages, loading, agentOps>>

\* faulty variant: the .catch handler emits but does not update the row
WebhookFailed_NoUpdate(r, why) ==
    /\ req[r].pc = "inflight"
    /\ req' = [req EXCEPT ![r].pc = "catch_emit",
                          ![r].response_text = error_response,
                          ![r].outcome = Failed(why)]
    /\ UNCHANGED <<setupVars, chatVars, portalVars, live, joins, last>>
    /\ UNCHANGED <<agents, messages, nextMessageId, rooms, events, inbox,
                   viewMessages, loading, lifecycle, agentOps>>

\* faulty variant: the .catch handler persists and delivers the error's own message
WebhookFailed_ErrorMessage(r, why) ==
    /\ req[r].pc = "inflight"
    /\ messages' = UpdateResponse(messages, req[r].messageId, why)
    /\ req' = [req EXCEPT ![r].pc = "catch_emit",
                          ![r].response_text = why,
                          ![r].outcome = Failed(why)]
    /\ lifecycle' = [lifecycle EXCEPT ![r] = @ \o Written(r, messages)]
    /\ UNCHANGED <<setupVars, chatVars, portalVars, live, joins, last>>
    /\ UNCHANGED <<agents, nextMessageId, rooms, events, inbox, viewMessages,
                   loading, agentOps>>

\* faulty variant: the failure handler also runs after the success handler has
\* written (.then(f).finally(g) for .then(f).catch(g))
WebhookFailed_AfterThen(r, why) ==
    /\ req[r].pc \in {"inflight", "then_emit"}
    /\ messages' = UpdateResponse(messages, req[r].messageId, error_response)
    /\ req' = [req EXCEPT ![r].pc = "catch_emit",
                          ![r].response_text = error_response,
                          ![r].outcome = Failed(why)]
    /\ lifecycle' = [lifecycle EXCEPT ![r] = @ \o Written(r, messages)]
    /\ UNCHANGED <<setupVars, chatVars, portalVars, live, joins, last>>
    /\ UNCHANGED <<agents, nextMessageId, rooms, events, inbox, viewMessages,
                   loading, agentOps>>

\* .catch: the webhook call failed (10 s timeout, connection error, non-2xx);
\* the UPDATE with the unavailability string executes
WebhookFailed(r, why) ==
    /\ req[r].pc = "inflight"
    /\ messages' = UpdateResponse(messages, req[r].messageId, error_response)
    /\ req' = [req EXCEPT ![r].pc = "catch_emit",
                          ![r].response_text = error_response,
                          ![r].outcome = Failed(why)]
    /\ lifecycle' = [lifecycle EXCEPT ![r] = @ \o Written(r, messages)]
    /\ UNCHANGED <<setupVars, chatVars, portalVars, live, joins, last>>
    /\ UNCHANGED <<agents, nextMessageId, rooms, events, inbox, viewMessages,
                   loading, agentOps>>

CatchEmit(r) ==
    /\ req[r].pc = "catch_emit"
    /\ Emit(r, req[r].response_text)
    /\ req' = [req EXCEPT ![r].pc = "done"]
    /\ lifecycle' = [lifecycle EXCEPT ![r] = @ \o <<"emit">>]
    /\ UNCHANGED <<setupVars, chatVars, portalVars, live, joins, last>>
    /\ UNCHANGED <<agents, messages, nextMessageId, rooms, viewMessages,
                   loading, agentOps>>

\* ------------------------------------------------------- agent management
\* what PUT and DELETE /api/agents/:id answer: the middleware's refusal, 404
\* when the statement returned no row, else 200
AgentReplyStatus(token, id) ==
    IF authenticateToken(token) # 0 THEN authenticateToken(token)
    ELSE IF ~SelectAgent(id, token.id).exists THEN 404
    ELSE 200

AgentReplyError(token, id) ==
    IF authenticateToken(token) # 0 THEN AuthError(token)
    ELSE IF ~SelectAgent(id, token.id).exists THEN "Agent not found"
    ELSE ""

\* PUT /api/agents/:id: UPDATE agents SET ... WHERE id = $5 AND client_id = $6
\* (node-postgres sends an undefined parameter as NULL)
PutAgent(token, id, body) ==
    /\ agentOps < MaxAgentOps
    /\ agentOps' = agentOps + 1
    /\ agents' =
          IF authenticateToken(token) = 0 /\ SelectAgent(id, token.id).exists
          THEN [agents EXCEPT ![id].webhook_url = body.webhook_url,
                              ![id].is_active =
                                  IF body.is_active = Undefined THEN NULL
                                  ELSE body.is_active]
          ELSE agents
    /\ last' = Reply("PUT /api/agents/:id", token, id,
                     AgentReplyStatus(token, id), AgentReplyError(token, id),
                     <<>>)
    /\ UNCHANGED <<setupVars, chatVars, portalVars, live, joins>>
    /\ UNCHANGED <<messages, nextMessageId, req, rooms, events, inbox,
                   viewMessages, loading, lifecycle>>

\* DELETE /api/agents/:id: DELETE FROM agents WHERE id = $1 AND client_id = $2
DeleteAgent(token, id) ==
    /\ agentOps < MaxAgentOps
    /\ agentOps' = agentOps + 1
    /\ IF authenticateToken(token) = 0 /\ SelectAgent(id, token.id).exists
       THEN /\ agents' = [agents EXCEPT ![id] = NoRow]
            /\ messages' = CascadeAgent(messages, id)
       ELSE UNCHANGED <<agents, messages>>
    /\ last' = Reply("DELETE /api/agents/:id", token, id,
                     AgentReplyStatus(token, id), AgentReplyError(token, id),
                     <<>>)
    /\ UNCHANGED <<setupVars, chatVars, portalVars, live, joins>>
    /\ UNCHANGED <<nextMessageId, req, rooms, events, inbox, viewMessages,
                   loading, lifecycle>>

\* the agents of a client as GET /api/agents lists them, latest first
RECURSIVE AgentList(_, _)
AgentList(n, clientId) ==
    IF n = 0 THEN <<>>
    ELSE IF agents[n].exists /\ agents[n].client_id = clientId
    THEN <<[id |-> n, client_id |-> clientId,
            webhook_url |-> agents[n].webhook_url,
            is_active |-> agents[n].is_active]>> \o AgentList(n - 1, clientId)
    ELSE AgentList(n - 1, clientId)

\* GET /api/agents
GetAgents(token) ==
    /\ last' =
          IF authenticateToken(token) # 0
          THEN Reply("GET /api/agents", token, 0, authenticateToken(token),
                     AuthError(token), <<>>)
          ELSE Reply("GET /api/agents", token, 0, 200, "",
                     AgentList(2 + MaxAgentOps, token.id))
    /\ UNCHANGED <<setupVars, chatVars, portalVars, live, joins>>
    /\ UNCHANGED <<agents, messages, rooms, relayVars, viewVars, agentOps>>

\* POST /api/agents: INSERT INTO agents (client_id, name, description,
\* webhook_url); is_active takes its default, an undefined parameter is NULL,
\* and a client_id without its row in clients violates the foreign key
PostAgent(token, body) ==
    LET status ==
            IF authenticateToken(token) # 0 THEN authenticateToken(token)
            ELSE IF ~Truthy(body.name) THEN 400
            ELSE IF ~clients[token.id].exists THEN 500
            ELSE 201
        error ==
            IF authenticateToken(token) # 0 THEN AuthError(token)
            ELSE IF ~Truthy(body.name) THEN "Agent name required"
            ELSE IF ~clients[token.id].exists THEN "Database error"
            ELSE ""
        row == AgentRow(token.id,
                        IF body.webhook_url = Undefined THEN NULL
                        ELSE body.webhook_url,
                        JsTrue)
    IN
    /\ agentOps < MaxAgentOps
    /\ agentOps' = agentOps + 1
    /\ nextAgentId' = IF status \in {201, 500} THEN nextAgentId + 1
                      ELSE nextAgentId
    /\ agents' = IF status = 201 THEN [agents EXCEPT ![nextAgentId] = row]
                 ELSE agents
    /\ last' = Reply("POST /api/agents", token, 0, status, error,
                     IF status = 201
                     THEN <<[id |-> nextAgentId, client_id |-> token.id,
                             webhook_url |-> row.webhook_url,
                             is_active |-> JsTrue]>>
                     ELSE <<>>)
    /\ UNCHANGED <<clients, nextClientId, creq, clientOps, live, joins>>
    /\ UNCHANGED <<setupVars, chatVars>>
    /\ UNCHANGED <<messages, rooms, relayVars, viewVars>>

\* faulty variant: the history SELECT without the response column
RECURSIVE MessageList_NoResponse(_, _, _)
MessageList_NoResponse(n, clientId, agentId) ==
    IF n = 0 THEN <<>>
    ELSE IF /\ messages[n].exists
            /\ messages[n].client_id = clientId
            /\ messages[n].agent_id = agentId
    THEN MessageList_NoResponse(n - 1, clientId, agentId)
            \o <<[id |-> n, client_id |-> clientId, agent_id |-> agentId,
                  message |-> messages[n].message, response |-> NULL]>>
    ELSE MessageList_NoResponse(n - 1, clientId, agentId)

\* faulty variant: the history SELECT without the client_id condition
RECURSIVE MessageList_AnyClient(_, _, _)
MessageList_AnyClient(n, clientId, agentId) ==
    IF n = 0 THEN <<>>
    ELSE IF messages[n].exists /\ messages[n].agent_id = agentId
    THEN MessageList_AnyClient(n - 1, clientId, agentId)
            \o <<[id |-> n, client_id |-> messages[n].client_id,
                  agent_id |-> agentId,
                  message |-> messages[n].message,
                  response |-> messages[n].response]>>
    ELSE MessageList_AnyClient(n - 1, clientId, agentId)

\* the messages of a client with an agent as the history lists them, oldest
\* first
RECURSIVE MessageList(_, _, _)
MessageList(n, clientId, agentId) ==
    IF n = 0 THEN <<>>
    ELSE IF /\ messages[n].exists
            /\ messages[n].client_id = clientId
            /\ messages[n].agent_id = agentId
    THEN MessageList(n - 1, clientId, agentId)
            \o <<[id |-> n, client_id |-> clientId, agent_id |-> agentId,
                  message |-> messages[n].message,
                  response |-> messages[n].response]>>
    ELSE MessageList(n - 1, clientId, agentId)

\* GET /api/chat/:agentId/history
GetHistory(token, agentId) ==
    /\ last' =
          IF authenticateToken(token) # 0
          THEN Reply("GET /api/chat/:agentId/history", token, agentId,
                     authenticateToken(token), AuthError(token), <<>>)
          ELSE Reply("GET /api/chat/:agentId/history", token, agentId, 200, "",
                     MessageList(Len(History) + MaxRequests, token.id, agentId))
    /\ UNCHANGED <<setupVars, chatVars, portalVars, live, joins>>
    /\ UNCHANGED <<agents, messages, rooms, relayVars, viewVars, agentOps>>

\* ------------------------------------------------------ client management
\* faulty variant: clients.email without UNIQUE
Duplicate_UsernameOnly(username, email) ==
    \E c \in ClientIds :
        clients[c].exists /\ clients[c].username = username

\* the unique constraints of clients.username and clients.email
Duplicate(username, email) ==
    \E c \in ClientIds :
        /\ clients[c].exists
        /\ clients[c].username = username \/ clients[c].email = email

\* faulty variant: agents.client_id without ON DELETE CASCADE
CascadeClientAgents_None(ags, clientId) == ags

\* ON DELETE CASCADE of agents.client_id
CascadeClientAgents(ags, clientId) ==
    [a \in AgentIds |->
        IF ags[a].exists /\ ags[a].client_id = clientId THEN NoRow
        ELSE ags[a]]

\* ON DELETE CASCADE of messages.client_id, and of messages.agent_id for
\* the agents the delete of the client removes
CascadeClientMessages(msgs, clientId) ==
    [m \in MessageIds |->
        IF /\ msgs[m].exists
           /\ \/ msgs[m].client_id = clientId
              \/ /\ agents[msgs[m].agent_id].exists
                 /\ agents[msgs[m].agent_id].client_id = clientId
        THEN NoRow
        ELSE msgs[m]]

\* POST /api/clients up to the INSERT it sends (after bcrypt.hash)
ClientsPost(k, token, body) ==
    LET status == authenticateAdmin(token)
        reply ==
            IF status # 0 THEN ErrorReply(status, AdminAuthError(token))
            ELSE IF \/ ~Truthy(body.username)
                    \/ ~Truthy(body.email)
                    \/ ~Truthy(body.password)
            THEN ErrorReply(400, "Username, email, and password required")
            ELSE NoReply
    IN
    /\ creq[k].pc = "idle"
    /\ IF k = 1 THEN TRUE ELSE creq[k - 1].pc # "idle"
    /\ creq' = [creq EXCEPT ![k] =
                   [pc |-> IF reply = NoReply THEN "insert" ELSE "done",
                    role |-> token.role,
                    username |-> IF reply = NoReply THEN body.username ELSE "",
                    email |-> IF reply = NoReply THEN body.email ELSE "",
                    reply |-> reply]]
    /\ UNCHANGED <<clients, nextClientId, nextAgentId, clientOps, live, joins, last>>
    /\ UNCHANGED <<setupVars, chatVars>>
    /\ UNCHANGED <<agents, messages, rooms, relayVars, viewVars, agentOps>>

\* the INSERT executes: the row with the next id of the sequence, or error
\* 23505 (the sequence value is drawn either way)
ClientsInsert(k) ==
    /\ creq[k].pc = "insert"
    /\ nextClientId' = nextClientId + 1
    /\ IF Duplicate(creq[k].username, creq[k].email)
       THEN /\ creq' = [creq EXCEPT
                          ![k].pc = "done",
                          ![k].reply =
                              ErrorReply(400, "Username or email already exists")]
            /\ UNCHANGED clients
       ELSE /\ clients' = [clients EXCEPT ![nextClientId] =
                             ClientRow(creq[k].username, creq[k].email)]
            /\ creq' = [creq EXCEPT
                          ![k].pc = "done",
                          ![k].reply =
                              [status |-> 201,
                               body |-> [id |-> nextClientId,
                                         username |-> creq[k].username,
                                         email |-> creq[k].email]]]
    /\ UNCHANGED <<nextAgentId, clientOps, live, joins, last>>
    /\ UNCHANGED <<setupVars, chatVars>>
    /\ UNCHANGED <<agents, messages, rooms, relayVars, viewVars, agentOps>>

\* the rows of table clients as GET /api/clients lists them, latest first
RECURSIVE ClientList(_)
ClientList(n) ==
    IF n = 0 THEN <<>>
    ELSE IF clients[n].exists
    THEN <<[id |-> n, username |-> clients[n].username,
            email |-> clients[n].email,
            webhook_url |-> clients[n].webhook_url]>> \o ClientList(n - 1)
    ELSE ClientList(n - 1)

\* GET /api/clients
GetClients(token) ==
    /\ last' =
          IF authenticateAdmin(token) # 0
          THEN Reply("GET /api/clients", token, 0, authenticateAdmin(token),
                     AdminAuthError(token), <<>>)
          ELSE Reply("GET /api/clients", token, 0, 200, "",
                     ClientList(2 + MaxCreates))
    /\ UNCHANGED <<setupVars, chatVars, portalVars, live, joins>>
    /\ UNCHANGED <<agents, messages, rooms, relayVars, viewVars, agentOps>>

\* PUT /api/clients/:id/webhook
PutClientWebhook(token, id, body) ==
    LET status ==
            IF authenticateAdmin(token) # 0 THEN authenticateAdmin(token)
            ELSE IF ~Truthy(body.webhook_url) THEN 400
            ELSE IF ~clients[id].exists THEN 404
            ELSE 200
        error ==
            IF authenticateAdmin(token) # 0 THEN AdminAuthError(token)
            ELSE IF ~Truthy(body.webhook_url) THEN "Webhook URL required"
            ELSE IF ~clients[id].exists THEN "Client not found"
            ELSE ""
    IN
    /\ clientOps < MaxClientOps
    /\ clientOps' = clientOps + 1
    /\ clients' = IF status = 200
                  THEN [clients EXCEPT ![id].webhook_url = body.webhook_url]
                  ELSE clients
    /\ last' = Reply("PUT /api/clients/:id/webhook", token, id, status, error, <<>>)
    /\ UNCHANGED <<nextClientId, nextAgentId, creq, live, joins>>
    /\ UNCHANGED <<setupVars, chatVars>>
    /\ UNCHANGED <<agents, messages, rooms, relayVars, viewVars, agentOps>>

\* DELETE /api/clients/:id: the SELECT, then DELETE FROM clients WHERE id = $1
\* with its cascades
DeleteClient(token, id) ==
    LET status ==
            IF authenticateAdmin(token) # 0 THEN authenticateAdmin(token)
            ELSE IF ~clients[id].exists THEN 404
            ELSE 200
        error ==
            IF authenticateAdmin(token) # 0 THEN AdminAuthError(token)
            ELSE IF ~clients[id].exists THEN "Client not found"
            ELSE ""
    IN
    /\ clientOps < MaxClientOps
    /\ clientOps' = clientOps + 1
    /\ IF status = 200
       THEN /\ clients' = [clients EXCEPT ![id] = NoRow]
            /\ agents' = CascadeClientAgents(agents, id)
            /\ messages' = CascadeClientMessages(messages, id)
       ELSE UNCHANGED <<clients, agents, messages>>
    /\ last' = Reply("DELETE /api/clients/:id", token, id, status, error, <<>>)
    /\ UNCHANGED <<nextClientId, nextAgentId, creq, live, joins>>
    /\ UNCHANGED <<setupVars, chatVars>>
    /\ UNCHANGED <<rooms, relayVars, viewVars, agentOps>>

\* ------------------------------------------------------------- socket.io
\* io.on('connection', (socket) => ...): a connection opens and gets its
\* handlers
Connect(s) ==
    /\ s \notin live
    /\ live' = live \cup {s}
    /\ joins' = [joins EXCEPT ![s] = <<>>]
    /\ UNCHANGED <<setupVars, chatVars, portalVars, last>>
    /\ UNCHANGED <<agents, messages, nextMessageId, req, rooms, events, inbox,
                   viewMessages, loading, lifecycle, agentOps>>

\* faulty variant: the closed socket stays in its rooms
Disconnect_KeepRooms(s) ==
    /\ s \in live
    /\ live' = live \ {s}
    /\ UNCHANGED <<setupVars, chatVars, portalVars, joins, last>>
    /\ UNCHANGED <<agents, messages, nextMessageId, req, rooms, events, inbox,
                   viewMessages, loading, lifecycle, agentOps>>

\* the connection closes: socket.io takes the socket out of every room it
\* joined, then the 'disconnect' handler logs
Disconnect(s) ==
    /\ s \in live
    /\ live' = live \ {s}
    /\ rooms' = [c \in Clients |-> rooms[c] \ {s}]
    /\ UNCHANGED <<setupVars, chatVars, portalVars, joins, last>>
    /\ UNCHANGED <<agents, messages, nextMessageId, req, events, inbox,
                   viewMessages, loading, lifecycle, agentOps>>

\* socket.on('join_client_room', (clientId) => socket.join(...))
JoinClientRoom(s, clientId) ==
    /\ s \in live
    /\ Len(joins[s]) < MaxJoins
    /\ joins' = [joins EXCEPT ![s] = Append(@, clientId)]
    /\ rooms' = [rooms EXCEPT ![clientId] = @ \cup {s}]
    /\ UNCHANGED <<setupVars, chatVars, portalVars, live, last>>
    /\ UNCHANGED <<agents, messages, nextMessageId, req, events, inbox,
                   viewMessages, loading, lifecycle, agentOps>>

\* ------------------------------------------------------------ Chat.tsx
\* sendMessage up to the await of axios.post
sendMessage(r) ==
    /\ ~loading
    /\ loading' = TRUE
    /\ ChatPost(r, TRUE, ClientToken(ViewUser), ViewAgent, "hello")
    /\ UNCHANGED <<setupVars, chatVars, portalVars, live, joins, last>>
    /\ UNCHANGED <<agents, messages, nextMessageId, rooms, events, inbox,
                   viewMessages, lifecycle, agentOps>>

\* sendMessage after the await: the HTTP reply of request r arrives
SendMessageReply(r) ==
    /\ req[r].viaView
    /\ req[r].reply # NoReply
    /\ ~req[r].replySeen
    /\ req' = [req EXCEPT ![r].replySeen = TRUE]
    /\ viewMessages' =
          IF req[r].reply.status = 200
          THEN Append(viewMessages,
                      [id |-> req[r].reply.body.messageId, response |-> ""])
          ELSE viewMessages
    /\ loading' = FALSE
    /\ UNCHANGED <<setupVars, chatVars, portalVars, live, joins, last>>
    /\ UNCHANGED <<agents, messages, nextMessageId, rooms, events, inbox,
                   lifecycle, agentOps>>

\* newSocket.on('agent_response', ...): prev.map(msg => ...)
OnAgentResponse ==
    /\ inbox[ViewSocket] # <<>>
    /\ LET data == Head(inbox[ViewSocket]) IN
       viewMessages' =
          [i \in DOMAIN viewMessages |->
              IF viewMessages[i].id = data.messageId
              THEN [viewMessages[i] EXCEPT !.response = data.response]
              ELSE viewMessages[i]]
    /\ inbox' = [inbox EXCEPT ![ViewSocket] = Tail(@)]
    /\ UNCHANGED <<setupVars, chatVars, portalVars, live, joins, last>>
    /\ UNCHANGED <<agents, messages, nextMessageId, req, rooms, events,
                   loading, lifecycle, agentOps>>

\* ----------------------------------------------------- failing queries
\* pool.query rejects (connection loss, pool timeout): query() rethrows.
\* The SELECT of the chat handler fails: caught, 500
ApiChatPostDbFault(r, token, agentId, message) ==
    /\ req[r].pc = "idle"
    /\ IF r = 1 THEN TRUE ELSE req[r - 1].pc # "idle"
    /\ authenticateToken(token) = 0
    /\ Truthy(message)
    /\ req' = [req EXCEPT ![r] =
                  [@ EXCEPT !.pc = "done",
                            !.clientId = token.id,
                            !.role = token.role,
                            !.agentId = agentId,
                            !.message = message,
                            !.dbError = TRUE,
                            !.reply = ErrorReply(500, "Database error")]]
    /\ UNCHANGED <<setupVars, chatVars, portalVars, live, joins, last>>
    /\ UNCHANGED <<agents, messages, nextMessageId, rooms, events, inbox,
                   viewMessages, loading, lifecycle, agentOps>>

\* the INSERT fails: caught, 500
ChatInsertDbFault(r) ==
    /\ req[r].pc = "insert"
    /\ req' = [req EXCEPT ![r].pc = "done",
                          ![r].dbError = TRUE,
                          ![r].reply = ErrorReply(500, "Database error")]
    /\ UNCHANGED <<setupVars, chatVars, portalVars, live, joins, last>>
    /\ UNCHANGED <<agents, messages, nextMessageId, rooms, events, inbox,
                   viewMessages, loading, lifecycle, agentOps>>

\* no webhook: the UPDATE fails: caught, 500, nothing emitted
PlaceholderUpdateDbFault(r) ==
    /\ req[r].pc = "placeholder_update"
    /\ req' = [req EXCEPT ![r].pc = "done",
                          ![r].dbError = TRUE,
                          ![r].reply = ErrorReply(500, "Database error")]
    /\ UNCHANGED <<setupVars, chatVars, portalVars, live, joins, last>>
    /\ UNCHANGED <<agents, messages, nextMessageId, rooms, events, inbox,
                   viewMessages, loading, lifecycle, agentOps>>

\* .then: the webhook answered 2xx, the UPDATE fails: the rejection of the
\* .then handler reaches the chained .catch, which sends its own UPDATE
WebhookAnsweredDbFault(r, data) ==
    /\ req[r].pc = "inflight"
    /\ req' = [req EXCEPT ![r].pc = "catch_update",
                          ![r].response_text = error_response,
                          ![r].dbError = TRUE,
                          ![r].outcome = Answered(data)]
    /\ UNCHANGED <<setupVars, chatVars, portalVars, live, joins, last>>
    /\ UNCHANGED <<agents, messages, nextMessageId, rooms, events, inbox,
                   viewMessages, loading, lifecycle, agentOps>>

\* .catch entered from .then: its UPDATE executes
CatchUpdate(r) ==
    /\ req[r].pc = "catch_update"
    /\ messages' = UpdateResponse(messages, req[r].messageId, error_response)
    /\ req' = [req EXCEPT ![r].pc = "catch_emit"]
    /\ lifecycle' = [lifecycle EXCEPT ![r] = @ \o Written(r, messages)]
    /\ UNCHANGED <<setupVars, chatVars, portalVars, live, joins, last>>
    /\ UNCHANGED <<agents, nextMessageId, rooms, events, inbox, viewMessages,
                   loading, agentOps>>

\* .catch: the webhook call failed and the UPDATE fails too: the promise
\* chain ends rejected, nothing is written or emitted
WebhookFailedDbFault(r, why) ==
    /\ req[r].pc = "inflight"
    /\ req' = [req EXCEPT ![r].pc = "rejected",
                          ![r].response_text = error_response,
                          ![r].dbError = TRUE,
                          ![r].outcome = Failed(why)]
    /\ UNCHANGED <<setupVars, chatVars, portalVars, live, joins, last>>
    /\ UNCHANGED <<agents, messages, nextMessageId, rooms, events, inbox,
                   viewMessages, loading, lifecycle, agentOps>>

CatchUpdateDbFault(r) ==
    /\ req[r].pc = "catch_update"
    /\ req' = [req EXCEPT ![r].pc = "rejected", ![r].dbError = TRUE]
    /\ UNCHANGED <<setupVars, chatVars, portalVars, live, joins, last>>
    /\ UNCHANGED <<agents, messages, nextMessageId, rooms, events, inbox,
                   viewMessages, loading, lifecycle, agentOps>>

\* --------------------------------------------------------- specification
Next ==
    \/ \E r \in Requests, t \in Tokens, a \in AgentIds, m \in MessageTexts :
          ApiChatPost(r, t, a, m)
    \/ \E r \in Requests : ChatInsert(r)
    \/ \E r \in Requests : PlaceholderUpdate(r)
    \/ \E r \in Requests : PlaceholderEmit(r)
    \/ \E r \in Requests, d \in WebhookBodies : WebhookAnswered(r, d)
    \/ \E r \in Requests : ThenEmit(r)
    \/ \E r \in Requests, why \in FailureReasons : WebhookFailed(r, why)
    \/ \E r \in Requests : CatchEmit(r)
    \/ \E t \in Tokens, a \in AgentIds, b \in PutBodies : PutAgent(t, a, b)
    \/ \E t \in Tokens, a \in AgentIds : DeleteAgent(t, a)
    \/ Connect(ViewSocket)
    \/ \E c \in Clients : JoinClientRoom(ViewSocket, c)
    \/ \E r \in Requests : sendMessage(r)
    \/ \E r \in Requests : SendMessageReply(r)
    \/ OnAgentResponse

\* the server and the view with every query succeeding
Spec == Init /\ [][Next]_vars

\* the same, where queries may fail
DbFault ==
    \/ \E r \in Requests, t \in Tokens, a \in AgentIds, m \in MessageTexts :
          ApiChatPostDbFault(r, t, a, m)
    \/ \E r \in Requests : ChatInsertDbFault(r)
    \/ \E r \in Requests : PlaceholderUpdateDbFault(r)
    \/ \E r \in Requests, d \in WebhookBodies : WebhookAnsweredDbFault(r, d)
    \/ \E r \in Requests : CatchUpdate(r)
    \/ \E r \in Requests, why \in FailureReasons : WebhookFailedDbFault(r, why)
    \/ \E r \in Requests : CatchUpdateDbFault(r)

NextDb == Next \/ DbFault

SpecDb == Init /\ [][NextDb]_vars

\* the relay steps of the server
Relay ==
    \/ \E r \in Requests, t \in Tokens, a \in AgentIds, m \in MessageTexts :
          ApiChatPost(r, t, a, m)
    \/ \E r \in Requests : ChatInsert(r)
    \/ \E r \in Requests : PlaceholderUpdate(r)
    \/ \E r \in Requests : PlaceholderEmit(r)
    \/ \E r \in Requests, d \in WebhookBodies : WebhookAnswered(r, d)
    \/ \E r \in Requests : ThenEmit(r)
    \/ \E r \in Requests, why \in FailureReasons : WebhookFailed(r, why)
    \/ \E r \in Requests : CatchEmit(r)

\* the routes of the clients' data: agents, messages and history, with the
\* admin's delete of a client
NextPortal ==
    \/ Relay
    \/ \E t \in Tokens : GetAgents(t)
    \/ \E t \in Tokens, b \in AgentPostBodies : PostAgent(t, b)
    \/ \E t \in Tokens, a \in AgentIds, b \in PutBodies : PutAgent(t, a, b)
    \/ \E t \in Tokens, a \in AgentIds : DeleteAgent(t, a)
    \/ \E t \in Tokens, a \in AgentIds : GetHistory(t, a)
    \/ \E t \in Tokens, c \in ClientIds : DeleteClient(t, c)

SpecPortal == Init /\ [][NextPortal]_vars

\* the admin's routes of table clients
NextAdmin ==
    \/ \E k \in CreateRequests, t \in Tokens, b \in CreateBodies :
          ClientsPost(k, t, b)
    \/ \E k \in CreateRequests : ClientsInsert(k)
    \/ \E t \in Tokens : GetClients(t)
    \/ \E t \in Tokens, c \in ClientIds, b \in WebhookPutBodies :
          PutClientWebhook(t, c, b)
    \/ \E t \in Tokens, c \in ClientIds : DeleteClient(t, c)

SpecAdmin == Init /\ [][NextAdmin]_vars

\* the relay, the history and one browser that connects, joins and leaves
NextChannel ==
    \/ Relay
    \/ Connect(ViewSocket)
    \/ \E c \in Clients : JoinClientRoom(ViewSocket, c)
    \/ Disconnect(ViewSocket)
    \/ \E t \in Tokens, a \in AgentIds : GetHistory(t, a)

SpecChannel == Init /\ [][NextChannel]_vars

\* the delivery channel: the relay that emits, and every connection
NextSockets ==
    \/ Relay
    \/ \E s \in Sockets : Connect(s)
    \/ \E s \in Sockets, c \in Clients : JoinClientRoom(s, c)
    \/ \E s \in Sockets : Disconnect(s)

SpecSockets == Init /\ [][NextSockets]_vars

\* every await of the server resumes, and the webhook call settles: it is
\* answered, or axios rejects it at the latest after `timeout: 10000`
ServerStep(r) ==
    \/ ChatInsert(r)
    \/ PlaceholderUpdate(r)
    \/ PlaceholderEmit(r)
    \/ \E d \in WebhookBodies : WebhookAnswered(r, d)
    \/ \E why \in FailureReasons : WebhookFailed(r, why)
    \/ ThenEmit(r)
    \/ CatchEmit(r)

FairSpec == Spec /\ \A r \in Requests : WF_vars(ServerStep(r))

\* ================================================================ claims
Row(r) == IF req[r].messageId \in MessageIds THEN messages[req[r].messageId]
          ELSE NoRow

EventsBy(r) == {i \in DOMAIN events : events[i].by = r}

Before(seq, a, b) ==
    \E i, j \in DOMAIN seq : i < j /\ seq[i] = a /\ seq[j] = b

Occurs(seq, a) == \E i \in DOMAIN seq : seq[i] = a

\* whatever is persisted on the row of request r and whatever is emitted for
\* it is the text x, and once the relay of r has run to its end the row (if
\* it still exists) holds x and the event has been emitted
PersistedAndDelivered(r, x) ==
    /\ (Row(r).exists /\ Row(r).response # NULL) => Row(r).response = x
    /\ \A i \in EventsBy(r) : events[i].data.response = x
    /\ req[r].pc \in {"then_emit", "catch_emit", "done"}
          => (Row(r).exists => Row(r).response = x)
    /\ req[r].pc = "done" => EventsBy(r) # {}

\* ---------------------------------------------------------------- C1
ViewHolds(r) ==
    \E i \in DOMAIN viewMessages :
        /\ viewMessages[i].id = req[r].messageId
        /\ viewMessages[i].response # ""

DeliveredToView(r) ==
    \E i \in EventsBy(r) : ViewSocket \in events[i].to

PendingInView(r) ==
    \E i \in DOMAIN inbox[ViewSocket] :
        inbox[ViewSocket][i].messageId = req[r].messageId

\* C1: for every message the view submitted and got a messageId for, whose
\* agent_response event was emitted to the view's joined socket: once the
\* view has handled both the HTTP reply and the event, in whichever order
\* they arrived, its message list holds a non-empty response for that id.
C1_ViewGetsResponse ==
    \A r \in Requests :
        ( /\ req[r].viaView
          /\ req[r].reply.status = 200
          /\ req[r].replySeen
          /\ DeliveredToView(r)
          /\ ~PendingInView(r) )
        => ViewHolds(r)

\* ---------------------------------------------------------------- C2
Accepted(r) == req[r].reply.status = 200

\* the row of request r has its response, or was removed by a cascade
Resolved(r) ==
    /\ req[r].messageId # 0
    /\ Row(r).exists => Row(r).response # NULL

\* C2: with every await resuming and every webhook call settling, each row
\* created by an accepted POST eventually has a non-null response and keeps
\* it for as long as the row exists; a call that ran into the 10 s timeout
\* leaves the fixed unavailability string on the row.
C2_EventuallyResolved ==
    /\ \A r \in Requests : Accepted(r) ~> Resolved(r)
    /\ [][\A r \in Requests : Resolved(r) => Resolved(r)']_vars
    /\ [](\A r \in Requests :
             req[r].outcome.reason = "timeout"
             => (Row(r).exists => Row(r).response = error_response))

C2_Witness ==
    \E r \in Requests :
        /\ Accepted(r)
        /\ req[r].outcome.reason = "timeout"
        /\ Row(r).exists
        /\ Row(r).response = error_response

\* ---------------------------------------------------------------- C3
IsRelayEvent(e) == e \in {"insert", "webhook", "write", "emit"}

RelayEvents(r) == SelectSeq(lifecycle[r], IsRelayEvent)

Rank(e) ==
    CASE e = "insert" -> 1
      [] e = "webhook" -> 2
      [] e = "write" -> 3
      [] e = "emit" -> 4

\* C3: for each message the row insert, the webhook call, the write of the
\* response and the emit of agent_response happen in this order, each at
\* most once: the insert is first, a webhook path issues its call before the
\* write, and an emit without a preceding write happens only when the row
\* was removed by a cascade before the UPDATE.
C3_LifecycleOrder ==
    \A r \in Requests :
        LET s == RelayEvents(r) IN
        /\ \A i, j \in DOMAIN s : i < j => Rank(s[i]) < Rank(s[j])
        /\ s # <<>> => s[1] = "insert"
        /\ (req[r].webhook_url = URL /\ (Occurs(s, "write") \/ Occurs(s, "emit")))
              => Occurs(s, "webhook")
        /\ (Occurs(s, "emit") /\ ~Occurs(s, "write")) => ~Row(r).exists

C3_Witness ==
    \E r \in Requests :
        RelayEvents(r) = <<"insert", "webhook", "write", "emit">>

\* ---------------------------------------------------------------- C4
\* C4: the HTTP reply of an accepted submission carries the message id and
\* the acknowledgement only, and the agent_response event of the message is
\* emitted after that reply was sent, with and without a webhook.
C4_EmitAfterReply ==
    \A r \in Requests :
        /\ Accepted(r) => DOMAIN req[r].reply.body = {"messageId", "message"}
        /\ Occurs(lifecycle[r], "emit")
              => Before(lifecycle[r], "reply", "emit")

\* ---------------------------------------------------------------- C5
\* C5: an accepted submission to an agent whose webhook_url is null or empty
\* has the fixed placeholder on its row and in its one agent_response event,
\* and no webhook call was made for it.
C5_NoWebhookPlaceholder ==
    \A r \in Requests :
        (Accepted(r) /\ req[r].webhook_url \in {NULL, ""})
        => /\ Row(r).exists => Row(r).response = no_webhook_response
           /\ Cardinality(EventsBy(r)) = 1
           /\ \A i \in EventsBy(r) :
                 events[i].data =
                    [messageId |-> req[r].messageId,
                     agentId |-> req[r].agentId,
                     response |-> no_webhook_response]
           /\ ~Occurs(lifecycle[r], "webhook")

C5_Witness ==
    \E r \in Requests :
        /\ Accepted(r)
        /\ req[r].webhook_url = ""
        /\ Row(r).exists
        /\ Row(r).response = no_webhook_response
        /\ EventsBy(r) # {}

\* ---------------------------------------------------------------- C6
\* C6: a 2xx reply with a `response` field of value X, for every string X,
\* has X as the persisted and as the delivered response.
C6_AnyResponse ==
    \A r \in Requests :
        (req[r].outcome.kind = "answered" /\ req[r].outcome.response # Undefined)
        => PersistedAndDelivered(r, req[r].outcome.response)

\* lemma (Spec, no failing query): a `response` field of a non-empty string
\* X is persisted on the row and delivered in the event.
NonEmptyResponseKept ==
    \A r \in Requests :
        ( /\ req[r].outcome.kind = "answered"
          /\ req[r].outcome.response \notin {Undefined, ""} )
        => PersistedAndDelivered(r, req[r].outcome.response)

\* ---------------------------------------------------------------- C7
\* C7: a 2xx reply without a `response` field has its `message` field as
\* the persisted and delivered response when that field is present, and
\* 'Agent response received' when neither field is present.
C7_MessageWhenPresent ==
    \A r \in Requests :
        (req[r].outcome.kind = "answered" /\ req[r].outcome.response = Undefined)
        => PersistedAndDelivered(r,
              IF req[r].outcome.message # Undefined
              THEN req[r].outcome.message ELSE received_response)

\* lemma (Spec, no failing query): without a `response` field a non-empty
\* `message` is persisted and delivered, 'Agent response received' when it
\* is absent or empty.
NonEmptyMessageKept ==
    \A r \in Requests :
        (req[r].outcome.kind = "answered" /\ req[r].outcome.response = Undefined)
        => PersistedAndDelivered(r,
              IF req[r].outcome.message \notin {Undefined, ""}
              THEN req[r].outcome.message ELSE received_response)

\* ---------------------------------------------------------------- C8
\* C8: a failed webhook call (timeout, connection error, non-2xx) has the
\* fixed unavailability string persisted and delivered, and the submit call
\* was answered 200 with the message id, never with an error.
C8_FailureIsAResponse ==
    \A r \in Requests :
        req[r].outcome.kind = "failed"
        => /\ PersistedAndDelivered(r, error_response)
           /\ req[r].reply.status = 200
           /\ req[r].reply.body.messageId = req[r].messageId
           /\ req[r].messageId \in MessageIds

C8_Witness ==
    \E r \in Requests :
        /\ req[r].outcome.reason = "non-2xx status"
        /\ req[r].pc = "done"
        /\ Row(r).exists
        /\ Row(r).response = error_response
        /\ EventsBy(r) # {}
        /\ req[r].reply.status = 200

\* ---------------------------------------------------------------- C9
Arrives(r) == req[r].pc = "idle" /\ req'[r].pc # "idle"

Owned(a, c) == a \in AgentIds /\ agents[a].exists /\ agents[a].client_id = c

\* C9: an authenticated submission with a message to an agent that does not
\* exist or is owned by another client is answered 404, one to an inactive
\* agent 400; handling it changes neither the message rows nor the events,
\* no webhook call is made, and nothing happens for it later.
C9_RejectedLeavesRows ==
    /\ [][\A r \in Requests :
            ( /\ Arrives(r)
              /\ req'[r].clientId \in Clients
              /\ req'[r].message # ""
              /\ ~(Owned(req'[r].agentId, req'[r].clientId)
                   /\ agents[req'[r].agentId].is_active = JsTrue) )
            => /\ req'[r].pc = "done"
               /\ req'[r].reply =
                    IF Owned(req'[r].agentId, req'[r].clientId)
                    THEN ErrorReply(400, "Agent is not active")
                    ELSE ErrorReply(404, "Agent not found")
               /\ messages' = messages
               /\ nextMessageId' = nextMessageId
               /\ events' = events
               /\ lifecycle' = lifecycle]_vars
    /\ [](\A r \in Requests :
             req[r].reply.status \in {400, 404}
             => /\ req[r].pc = "done"
                /\ req[r].messageId = 0
                /\ lifecycle[r] = <<>>
                /\ EventsBy(r) = {})

C9_Witness ==
    \E r \in Requests :
        /\ req[r].reply = ErrorReply(404, "Agent not found")
        /\ req[r].clientId = 1
        /\ req[r].agentId = 2
        /\ agents[2].exists
        /\ agents[2].client_id = 2

\* ---------------------------------------------------------------- C10
\* C10: a row's response is null until one write and is not changed by any
\* later step: every row was written at most once.
C10_WrittenOnce ==
    /\ [][\A m \in MessageIds :
            (messages[m].exists /\ messages[m].response # NULL)
            => (~messages'[m].exists \/ messages'[m] = messages[m])]_vars
    /\ [](\A m \in MessageIds :
             messages[m].exists
             => /\ messages[m].writes <= 1
                /\ messages[m].response = NULL <=> messages[m].writes = 0)

\* the success handler failed on its UPDATE and the chained failure handler
\* wrote the row
C10_Witness ==
    \E r \in Requests :
        /\ req[r].outcome.kind = "answered"
        /\ Row(r).exists
        /\ Row(r).response = error_response
        /\ Row(r).writes = 1

\* ---------------------------------------------------------------- C11
\* C11: whatever clients, agents and messages were created and deleted, every
\* agent row references an existing client and every message row references
\* an existing client and an existing agent; so nothing of a deleted client
\* and no message of a deleted agent is left.
C11_ReferentialIntegrity ==
    /\ \A a \in AgentIds :
          agents[a].exists => clients[agents[a].client_id].exists
    /\ \A m \in MessageIds :
          messages[m].exists
          => /\ clients[messages[m].client_id].exists
             /\ agents[messages[m].agent_id].exists

\* a client that had an agent and a message was deleted
C11_Witness ==
    \E r \in Requests :
        /\ req[r].messageId \in MessageIds
        /\ req[r].clientId = 1
        /\ ~clients[1].exists
        /\ ~agents[1].exists
        /\ ~messages[req[r].messageId].exists
        /\ last.op = "DELETE /api/clients/:id"
        /\ last.status = 200

\* ---------------------------------------------------------------- C12
\* the event of request r was emitted into a room without any connection
Dropped(r) == \E i \in EventsBy(r) : events[i].to = {}

Received(s, r) ==
    \E i \in DOMAIN inbox[s] : inbox[s][i].messageId = req[r].messageId

HistoryHolds(reply, r) ==
    \E i \in DOMAIN reply.rows :
        /\ reply.rows[i].id = req[r].messageId
        /\ reply.rows[i].message = req[r].message
        /\ reply.rows[i].response = req[r].response_text

\* C12: an event emitted while no connection is in the client's room is
\* dropped: the relay ends as usual with the submit call answered 200, no
\* connection receives the event, also none that joins the room later; and
\* a GET /api/chat/:agentId/history of that client for that agent after it
\* lists the message with the response that was written.
C12_DroppedButInHistory ==
    /\ [](\A r \in Requests :
             Dropped(r)
             => /\ req[r].pc = "done"
                /\ req[r].reply.status = 200
                /\ \A s \in Sockets : ~Received(s, r))
    /\ [][\A r \in Requests :
            ( /\ Dropped(r)
              /\ Row(r).exists
              /\ last' # last
              /\ last'.op = "GET /api/chat/:agentId/history"
              /\ last'.status = 200
              /\ last'.caller = req[r].clientId
              /\ last'.id = req[r].agentId )
            => /\ req[r].response_text # NULL
               /\ HistoryHolds(last', r)]_vars

\* the event was dropped, a connection joined the room after it and has
\* received nothing, and the history lists the response
C12_Witness ==
    \E r \in Requests :
        /\ Dropped(r)
        /\ rooms[req[r].clientId] # {}
        /\ \A s \in Sockets : inbox[s] = <<>>
        /\ last.op = "GET /api/chat/:agentId/history"
        /\ last.caller = req[r].clientId
        /\ last.id = req[r].agentId
        /\ HistoryHolds(last, r)
        /\ req[r].response_text = error_response

\* ---------------------------------------------------------------- C13
\* the step emits an agent_response event
Emits == Len(events') = Len(events) + 1

\* the open connection s has sent join_client_room for c
JoinedUnder(s, c) == s \in live /\ JoinCount(s, c) > 0

Copies(s, data) == Cardinality({j \in DOMAIN inbox[s] : inbox[s][j] = data})

\* C13: an emit for client identity C hands the event once to every open
\* connection that has sent join_client_room for C, however often it sent
\* it, and to no other connection: every connection holds one copy of an
\* event it was joined for and none of any other event.
C13_ExactlyOnce ==
    /\ [][Emits =>
            LET e == events'[Len(events')] IN
            \A s \in Sockets :
                inbox'[s] = IF JoinedUnder(s, e.room)
                            THEN Append(inbox[s], e.data)
                            ELSE inbox[s]]_vars
    /\ [](\A i \in DOMAIN events, s \in Sockets :
             Copies(s, events[i].data) = IF s \in events[i].to THEN 1 ELSE 0)

\* one connection had joined twice under C before the emit and holds one
\* copy; the other one, open and joined under the other identity only,
\* holds none
C13_Witness ==
    \E i \in DOMAIN events, s, o \in Sockets :
        /\ s \in events[i].rejoined
        /\ Copies(s, events[i].data) = 1
        /\ o # s
        /\ o \in live
        /\ joins[o] # <<>>
        /\ JoinCount(o, events[i].room) = 0
        /\ inbox[o] = <<>>

\* ---------------------------------------------------------------- C14
\* C14: the rooms hold open connections only: a connection that closes is
\* in no room after the step, and an emit hands nothing to a closed
\* connection.
C14_ClosedLeavesRooms ==
    /\ [](\A c \in Clients : rooms[c] \subseteq live)
    /\ [][\A s \in Sockets :
            (s \in live /\ s \notin live')
            => \A c \in Clients : s \notin rooms'[c]]_vars
    /\ [][Emits =>
            LET e == events'[Len(events')] IN
            \A s \in Sockets \ live :
                s \notin e.to /\ inbox'[s] = inbox[s]]_vars

\* a connection had joined the room, was closed, and the event emitted
\* into the room after that did not reach it
C14_Witness ==
    \E i \in DOMAIN events, s \in Sockets :
        /\ s \in events[i].closed
        /\ s \notin events[i].to
        /\ inbox[s] = <<>>

\* ---------------------------------------------------------------- C15
ClientRoutes ==
    {"GET /api/agents", "POST /api/agents", "PUT /api/agents/:id",
     "DELETE /api/agents/:id", "GET /api/chat/:agentId/history"}

\* C15: the routes of agents, chat and history serve callers whose token
\* has role client only: a request with the admin's token is refused (403)
\* before its handler runs, so it is sent no rows and no message is
\* submitted for it.
C15_ClientRoleOnly ==
    /\ (last.op \in ClientRoutes /\ last.role = "admin")
          => (last.status = 403 /\ last.rows = <<>>)
    /\ \A r \in Requests :
          req[r].role = "admin"
          => /\ req[r].pc = "done"
             /\ req[r].reply.status = 403
             /\ req[r].messageId = 0

\* ---------------------------------------------------------------- C16
AdminRoutes ==
    {"GET /api/clients", "PUT /api/clients/:id/webhook",
     "DELETE /api/clients/:id"}

\* C16: the routes of /api/clients serve callers whose token has role admin
\* only: a request with a client's token, an invalid or expired token or no
\* token is answered 401 or 403 without rows, a create request of such a
\* caller ends at the middleware, and every step that changes table clients
\* is the step of a request with the admin's token.
C16_AdminRoleOnly ==
    /\ [](( /\ last.op \in AdminRoutes
             /\ last.role # "admin" )
           => (last.status \in {401, 403} /\ last.rows = <<>>))
    /\ [](\A k \in CreateRequests :
             (creq[k].pc # "idle" /\ creq[k].role # "admin")
             => /\ creq[k].pc = "done"
                /\ creq[k].reply.status \in {401, 403}
                /\ DOMAIN creq[k].reply.body = {"error"})
    /\ [][clients' # clients
            => \/ /\ last' # last
                  /\ last'.op \in AdminRoutes
                  /\ last'.role = "admin"
                  /\ last'.status = 200
               \/ \E k \in CreateRequests :
                     /\ creq[k].pc = "insert"
                     /\ creq'[k].pc = "done"
                     /\ creq[k].role = "admin"]_vars

\* a client's token on DELETE /api/clients/:id of an existing client, and
\* no token on POST /api/clients
C16_Witness ==
    /\ last.op = "DELETE /api/clients/:id"
    /\ last.role = "client"
    /\ last.status = 403
    /\ last.id \in ClientIds
    /\ clients[last.id].exists
    /\ \E k \in CreateRequests :
          creq[k].pc = "done" /\ creq[k].reply.status = 401

\* ---------------------------------------------------------------- C17
\* C17: a request whose token is missing, has an invalid signature or is
\* expired is answered 401, and the handler behind the middleware does not
\* run.
C17_Unauthenticated401 ==
    /\ (last.op # "none" /\ last.role = "none")
          => (last.status = 401 /\ last.rows = <<>>)
    /\ \A r \in Requests :
          (req[r].pc # "idle" /\ req[r].role = "none")
          => /\ req[r].pc = "done"
             /\ req[r].reply.status = 401
             /\ req[r].messageId = 0

\* ---------------------------------------------------------------- C18
\* C18: at most one webhook call is made for a submission: one for an
\* accepted submission to an agent with a webhook URL, none otherwise, and
\* still one after the call has failed or timed out.
C18_OneWebhookCall ==
    \A r \in Requests :
        /\ WebhookCalls(r) <= 1
        /\ Accepted(r)
              => WebhookCalls(r) =
                    IF req[r].webhook_url \in {NULL, ""} THEN 0 ELSE 1
        /\ ~Accepted(r) => WebhookCalls(r) = 0
        /\ req[r].outcome.kind = "failed" => WebhookCalls(r) = 1

C18_Witness ==
    \E r \in Requests :
        /\ req[r].outcome.reason = "timeout"
        /\ req[r].pc = "done"
        /\ WebhookCalls(r) = 1

\* ---------------------------------------------------------------- C19
\* C19: a submission for which a database operation failed (the agent
\* lookup, the insert of the message or the write of the response) is
\* answered 500 'Database error'.
C19_DbFailureIs500 ==
    \A r \in Requests :
        req[r].dbError => req[r].reply = ErrorReply(500, "Database error")

\* ---------------------------------------------------------------- C20
Taken(username, email) ==
    \E c \in ClientIds :
        /\ clients[c].exists
        /\ clients[c].username = username \/ clients[c].email = email

\* C20: no two rows of table clients share a username or an email, however
\* the create requests interleave; the INSERT of a request whose username
\* or email is taken is answered 400 'Username or email already exists'
\* and leaves the table as it was, any other INSERT adds the row.
C20_UniqueClients ==
    /\ [](\A c, d \in ClientIds :
             (c # d /\ clients[c].exists /\ clients[d].exists)
             => /\ clients[c].username # clients[d].username
                /\ clients[c].email # clients[d].email)
    /\ [][\A k \in CreateRequests :
            (creq[k].pc = "insert" /\ creq'[k].pc = "done")
            => IF Taken(creq[k].username, creq[k].email)
               THEN /\ creq'[k].reply =
                          ErrorReply(400, "Username or email already exists")
                    /\ clients' = clients
               ELSE /\ creq'[k].reply.status = 201
                    /\ \E c \in ClientIds :
                          /\ ~clients[c].exists
                          /\ clients' = [clients EXCEPT ![c] =
                                ClientRow(creq[k].username, creq[k].email)]]_vars

\* two requests for the same new username were in flight together: the
\* one that arrived first lost to the row of the other
C20_Witness ==
    /\ creq[1].reply = ErrorReply(400, "Username or email already exists")
    /\ creq[2].reply.status = 201
    /\ creq[2].reply.body.username = "u3"
    /\ creq[1].username = "u3"
    /\ \E c \in ClientIds : clients[c].exists /\ clients[c].username = "u3"

\* ------------------------------------------------------- database setup
\* the database right after CREATE DATABASE: no table holds a row
InitFresh ==
    /\ agents = [a \in AgentIds |-> NoRow]
    /\ messages = [m \in MessageIds |-> NoRow]
    /\ nextMessageId = 1
    /\ req = [r \in Requests |-> IdleRequest]
    /\ rooms = [c \in Clients |-> {}]
    /\ events = <<>>
    /\ inbox = [s \in Sockets |-> <<>>]
    /\ viewMessages = <<>>
    /\ loading = FALSE
    /\ lifecycle = [r \in Requests |-> <<>>]
    /\ agentOps = 0
    /\ clients = [c \in ClientIds |-> NoRow]
    /\ nextClientId = 1
    /\ nextAgentId = 1
    /\ creq = [k \in CreateRequests |-> IdleCreate]
    /\ clientOps = 0
    /\ live = {}
    /\ joins = [s \in Sockets |-> <<>>]
    /\ last = NoRequest
    /\ admins = <<>>
    /\ initRun = [p \in InitRuns |-> "idle"]
    /\ chat = NoChat
    /\ sessionSockets = NoSockets

\* initDatabase up to the admin check: CREATE TABLE IF NOT EXISTS and CREATE
\* INDEX IF NOT EXISTS change nothing that exists
CreateTables(p) ==
    /\ initRun[p] = "idle"
    /\ initRun' = [initRun EXCEPT ![p] = "create"]
    /\ UNCHANGED <<admins, chatVars, portalVars, live, joins, last>>
    /\ UNCHANGED <<agents, messages, rooms, relayVars, viewVars, agentOps>>

\* SELECT * FROM admins WHERE username = $1: the number of rows
SelectAdmin(username) ==
    Cardinality({i \in 1..Len(admins) : admins[i].username = username})

\* const adminCheck = await pool.query(...); if (adminCheck.rows.length === 0)
CheckAdmin(p) ==
    /\ initRun[p] = "create"
    /\ initRun' = [initRun EXCEPT ![p] =
                      IF SelectAdmin("admin") = 0 THEN "insert" ELSE "done"]
    /\ UNCHANGED <<admins, chatVars, portalVars, live, joins, last>>
    /\ UNCHANGED <<agents, messages, rooms, relayVars, viewVars, agentOps>>

\* faulty variant: admins.username and admins.email without UNIQUE
AdminTaken_NoUnique(row) == FALSE

\* the unique constraints of admins.username and admins.email
AdminTaken(row) ==
    \E i \in 1..Len(admins) :
        admins[i].username = row.username \/ admins[i].email = row.email

\* the hash and the INSERT INTO admins; a unique violation rejects the query,
\* initDatabase rethrows and its caller ends the process
InsertAdmin(p) ==
    /\ initRun[p] = "insert"
    /\ IF AdminTaken(SeedAdmin)
       THEN /\ initRun' = [initRun EXCEPT ![p] = "failed"]
            /\ UNCHANGED admins
       ELSE /\ initRun' = [initRun EXCEPT ![p] = "done"]
            /\ admins' = Append(admins, SeedAdmin)
    /\ UNCHANGED <<chatVars, portalVars, live, joins, last>>
    /\ UNCHANGED <<agents, messages, rooms, relayVars, viewVars, agentOps>>

NextSetup ==
    \E p \in InitRuns :
        \/ CreateTables(p)
        \/ CheckAdmin(p)
        \/ InsertAdmin(p)

SpecSetup == InitFresh /\ [][NextSetup]_vars

\* C21: however the runs of initDatabase interleave, the admins table never
\* holds more than one row of the seeded admin, and holds exactly one as soon
\* as any run has got past its admin step
C21_OneSeededAdmin ==
    /\ SelectAdmin("admin") <= 1
    /\ \A p \in InitRuns :
          initRun[p] \in {"done", "failed"} => SelectAdmin("admin") = 1

\* two runs both found no admin; one inserted it, the other's INSERT was
\* rejected; a third run found the admin and inserted nothing
C21_Witness ==
    /\ \E p, q \in InitRuns : initRun[p] = "done" /\ initRun[q] = "failed"
    /\ SelectAdmin("admin") = 1
    /\ Len(admins) = 1
\* ------------------------------------------------------ agent ownership
\* the step is a PUT or DELETE /api/agents/:id of an authenticated caller whose
\* id is not the client_id of the agent row that :id names
ByNonOwner ==
    /\ agentOps' = agentOps + 1
    /\ last'.op \in {"PUT /api/agents/:id", "DELETE /api/agents/:id"}
    /\ last'.role # "none"
    /\ agents[last'.id].exists
    /\ agents[last'.id].client_id # last'.caller

\* C22: no step changes the client_id of an agent row, and a PUT or DELETE
\* /api/agents/:id by a caller that does not own the agent is answered 404
\* 'Agent not found' and changes no agent row and no message row
C22_OwnerOnly ==
    /\ [][\A a \in AgentIds :
            agents[a].exists /\ agents'[a].exists
                => agents'[a].client_id = agents[a].client_id]_vars
    /\ [][ByNonOwner =>
            /\ last'.status = 404
            /\ last'.error = "Agent not found"
            /\ agents' = agents
            /\ messages' = messages]_vars

\* client 2 asked to change or delete agent 1 of client 1, which holds a
\* message: the answer is 404 and the agent and its message are there
C22_Witness ==
    /\ last.op \in {"PUT /api/agents/:id", "DELETE /api/agents/:id"}
    /\ last.role = "client"
    /\ last.caller = 2
    /\ last.id = 1
    /\ last.status = 404
    /\ agents[1].exists
    /\ agents[1].client_id = 1
    /\ \E m \in MessageIds : messages[m].exists /\ messages[m].agent_id = 1
\* ----------------------------------------------------------- chat history
\* the server after three submissions have been handled
InitHistory ==
    /\ \E w \in {NULL, "", URL} :
          agents = [a \in AgentIds |->
                      IF a = 1 THEN AgentRow(1, w, JsTrue)
                      ELSE IF a = 2 THEN AgentRow(2, NULL, JsTrue)
                      ELSE NoRow]
    /\ messages = [m \in MessageIds |->
                     IF m <= Len(History) THEN History[m] ELSE NoRow]
    /\ nextMessageId = Len(History) + 1
    /\ req = [r \in Requests |-> IdleRequest]
    /\ rooms = [c \in Clients |-> {}]
    /\ events = <<>>
    /\ inbox = [s \in Sockets |-> <<>>]
    /\ viewMessages = <<>>
    /\ loading = FALSE
    /\ lifecycle = [r \in Requests |-> <<>>]
    /\ agentOps = 0
    /\ clients = [c \in ClientIds |->
                    IF c = 1 THEN ClientRow("u1", "e1")
                    ELSE IF c = 2 THEN ClientRow("u2", "e2")
                    ELSE NoRow]
    /\ nextClientId = 3
    /\ nextAgentId = 3
    /\ creq = [k \in CreateRequests |-> IdleCreate]
    /\ clientOps = 0
    /\ live = {}
    /\ joins = [s \in Sockets |-> <<>>]
    /\ last = NoRequest
    /\ admins = <<SeedAdmin>>
    /\ initRun = [p \in InitRuns |-> "idle"]
    /\ chat = NoChat
    /\ sessionSockets = NoSockets

NextHistory ==
    \/ Relay
    \/ \E t \in Tokens, a \in AgentIds : GetHistory(t, a)
    \/ \E t \in Tokens, a \in AgentIds : DeleteAgent(t, a)

SpecHistory == InitHistory /\ [][NextHistory]_vars

\* the ids of the message rows of a client with an agent
RowsOf(clientId, agentId) ==
    {m \in MessageIds : /\ messages[m].exists
                        /\ messages[m].client_id = clientId
                        /\ messages[m].agent_id = agentId}

\* the step answers GET /api/chat/:agentId/history with 200
HistoryAnswered ==
    /\ last' # last
    /\ last'.op = "GET /api/chat/:agentId/history"
    /\ last'.status = 200

\* C23: the rows that GET /api/chat/:agentId/history answers are exactly the
\* message rows whose client_id is the caller's id and whose agent_id is
\* :agentId, each once, with the message and the response of the row, in
\* ascending order of creation; no row of another client is among them, also
\* when :agentId is another client's agent
C23_HistoryExact ==
    [][HistoryAnswered =>
        LET rows == last'.rows IN
        /\ {rows[i].id : i \in 1..Len(rows)} = RowsOf(last'.caller, last'.id)
        /\ \A i \in 1..Len(rows) :
              /\ messages[rows[i].id].exists
              /\ messages[rows[i].id].client_id = last'.caller
              /\ messages[rows[i].id].agent_id = last'.id
              /\ rows[i].message = messages[rows[i].id].message
              /\ rows[i].response = messages[rows[i].id].response
        /\ \A i, j \in 1..Len(rows) : i < j => rows[i].id < rows[j].id]_vars

\* client 1 reads its history with agent 1: three rows in the order they were
\* created, the latest from a submission handled since, and not the row of
\* client 2 that was created between them
C23_Witness ==
    /\ last.op = "GET /api/chat/:agentId/history"
    /\ last.status = 200
    /\ last.caller = 1
    /\ last.id = 1
    /\ Len(last.rows) = 3
    /\ last.rows[1].id = 1
    /\ last.rows[2].id = 3
    /\ last.rows[3].id = Len(History) + 1
    /\ messages[2].exists
    /\ messages[2].client_id = 2
\* ------------------------------------------- submissions and agent changes
\* C24: whenever a step inserts a message row, the agent the row names exists
\* at that moment and its is_active flag is not false
C24_NoInsertForInactive ==
    [][\A m \in MessageIds :
          ~messages[m].exists /\ messages'[m].exists
              => /\ agents[messages'[m].agent_id].exists
                 /\ agents[messages'[m].agent_id].is_active # JsFalse]_vars
\* ------------------------------------------------ client-level webhook URL
\* the server with two clients, of which client 1 may have had its webhook URL
\* set in the admin portal
InitWebhook ==
    /\ \E w \in {NULL, "", URL} :
          agents = [a \in AgentIds |->
                      IF a = 1 THEN AgentRow(1, w, JsTrue)
                      ELSE IF a = 2 THEN AgentRow(2, NULL, JsTrue)
                      ELSE NoRow]
    /\ messages = [m \in MessageIds |-> NoRow]
    /\ nextMessageId = 1
    /\ req = [r \in Requests |-> IdleRequest]
    /\ rooms = [c \in Clients |-> {}]
    /\ events = <<>>
    /\ inbox = [s \in Sockets |-> <<>>]
    /\ viewMessages = <<>>
    /\ loading = FALSE
    /\ lifecycle = [r \in Requests |-> <<>>]
    /\ agentOps = 0
    /\ \E cw \in {NULL, URL} :
          clients = [c \in ClientIds |->
                       IF c = 1
                       THEN [ClientRow("u1", "e1") EXCEPT !.webhook_url = cw]
                       ELSE IF c = 2 THEN ClientRow("u2", "e2")
                       ELSE NoRow]
    /\ nextClientId = 3
    /\ nextAgentId = 3
    /\ creq = [k \in CreateRequests |-> IdleCreate]
    /\ clientOps = 0
    /\ live = {}
    /\ joins = [s \in Sockets |-> <<>>]
    /\ last = NoRequest
    /\ admins = <<SeedAdmin>>
    /\ initRun = [p \in InitRuns |-> "idle"]
    /\ chat = NoChat
    /\ sessionSockets = NoSockets

NextWebhook ==
    \/ Relay
    \/ \E t \in Tokens, c \in ClientIds, b \in WebhookPutBodies :
          PutClientWebhook(t, c, b)

SpecWebhook == InitWebhook /\ [][NextWebhook]_vars

handleEditAgent(id, webhook_url) ==
    /\ agents[id].exists
    /\ agents[id].client_id = ViewUser
    /\ PutAgent(ClientToken(ViewUser), id,
                [webhook_url |-> webhook_url, is_active |-> Undefined])

NextDashboard ==
    \/ Relay
    \/ \E a \in AgentIds, w \in {"", URL} : handleEditAgent(a, w)

SpecDashboard == Init /\ [][NextDashboard]_vars

\* C26: the PUT of the edit form leaves the is_active flag of the agent as it
\* was, and no submission is answered 400 'Agent is not active' when edits are
\* the only changes made to agents
C26_EditKeepsActive ==
    /\ [][\A a \in AgentIds :
            agents[a].exists /\ agents'[a].exists
                => agents'[a].is_active = agents[a].is_active]_vars
    /\ [](\A r \in Requests :
            req[r].reply # ErrorReply(400, "Agent is not active"))
\* ------------------------------------------------------ room membership
\* the client as which the holder of a socket has logged in: the view's socket
\* belongs to the view's user, the other socket to client 2
Holder(s) == IF s = ViewSocket THEN ViewUser ELSE 2

\* C27: every agent_response event of a client's room went only to sockets
\* whose holder is logged in as that client
C27_OwnEventsOnly ==
    \A i \in DOMAIN events :
        \A s \in events[i].to : Holder(s) = events[i].room
\* --------------------------------------------------- events and their rows
\* C28: whenever an agent_response event is emitted, the message row its
\* messageId names exists and holds the response text of the event
C28_EventHasRow ==
    [][Len(events') = Len(events) + 1 =>
        LET data == events'[Len(events')].data IN
        /\ messages[data.messageId].exists
        /\ messages[data.messageId].response = data.response]_vars
\* ------------------------------------------------ the unavailability string
\* C29: the unavailability string is on the row of a submission, or in an
\* event emitted for it, only if the webhook call of that submission failed
C29_UnavailableOnlyOnFailure ==
    \A r \in Requests :
        ( \/ Row(r).exists /\ Row(r).response = error_response
          \/ \E i \in EventsBy(r) : events[i].data.response = error_response )
        => req[r].outcome.kind = "failed"
\* ------------------------------------------------------ Chat.tsx lifecycle
\* io(): the next socket of the session, 0 when the model has no more
NewSocket ==
    IF \E i \in DOMAIN ChatSockets : sessionSockets[i] = "none"
    THEN CHOOSE i \in DOMAIN ChatSockets :
            /\ sessionSockets[i] = "none"
            /\ \A j \in DOMAIN ChatSockets : sessionSockets[j] = "none" => i <= j
    ELSE 0

\* the cleanup of the effect: `if (socket) socket.disconnect()`, with the
\* `socket` of the render in which the effect ran
Cleanup(socks) ==
    IF chat.cleanup = NULL THEN socks
    ELSE [i \in DOMAIN ChatSockets |->
            IF ChatSockets[i] = chat.cleanup /\ socks[i] = "open" THEN "closed"
            ELSE socks[i]]

\* setupSocket: io() and setSocket(newSocket); the function it returns is
\* dropped by the effect
setupSocket(socks) == [socks EXCEPT ![NewSocket] = "open"]

\* the route /chat/:agentId renders Chat for the first time: `socket` is null
\* in this render, the effect runs and keeps a cleanup that closes over it
Mount(agentId) ==
    /\ ~chat.mounted
    /\ NewSocket # 0
    /\ sessionSockets' = setupSocket(sessionSockets)
    /\ chat' = [mounted |-> TRUE, agentId |-> agentId,
                socket |-> ChatSockets[NewSocket], cleanup |-> NULL]
    /\ UNCHANGED <<setupVars, portalVars, live, joins, last>>
    /\ UNCHANGED <<agents, messages, rooms, relayVars, viewVars, agentOps>>

\* the route changes to another agent: the cleanup of the previous effect
\* runs, then the effect of this render, whose `socket` is the state set by
\* the previous setupSocket
ChangeAgent(agentId) ==
    /\ chat.mounted
    /\ agentId # chat.agentId
    /\ NewSocket # 0
    /\ sessionSockets' = setupSocket(Cleanup(sessionSockets))
    /\ chat' = [chat EXCEPT !.agentId = agentId,
                            !.socket = ChatSockets[NewSocket],
                            !.cleanup = chat.socket]
    /\ UNCHANGED <<setupVars, portalVars, live, joins, last>>
    /\ UNCHANGED <<agents, messages, rooms, relayVars, viewVars, agentOps>>

\* the user leaves the chat: the cleanup of the last effect runs and the
\* component's state is gone
Unmount ==
    /\ chat.mounted
    /\ sessionSockets' = Cleanup(sessionSockets)
    /\ chat' = NoChat
    /\ UNCHANGED <<setupVars, portalVars, live, joins, last>>
    /\ UNCHANGED <<agents, messages, rooms, relayVars, viewVars, agentOps>>

NextChat ==
    \/ \E a \in AgentIds : Mount(a)
    \/ \E a \in AgentIds : ChangeAgent(a)
    \/ Unmount

SpecChat == Init /\ [][NextChat]_vars

\* the sockets of the session that are open
OpenSockets == {i \in DOMAIN ChatSockets : sessionSockets[i] = "open"}

\* C30: after every mount, agent change and unmount the session holds no open
\* socket when no chat view is mounted and at most one when one is; the one
\* open socket of a mounted view is the socket it opened last
C30_OneSocketPerView ==
    /\ ~chat.mounted => OpenSockets = {}
    /\ chat.mounted => \A i \in OpenSockets : ChatSockets[i] = chat.socket
====
